---- MODULE Spec2Model ----
(***************************************************************************)
(* Model of the TempMail bot: the chat handlers (new_email,                *)
(* get_custom_username, list_emails, inbox_or_delete_prompt, stats, the    *)
(* inline-button callbacks), the mail.gw client (mail_gw.py), the mailbox  *)
(* table the handlers reach through `db`, and the hourly cleanup job.      *)
(*                                                                         *)
(* Text is a sequence of one-character strings, so that formatting         *)
(* (f"{username}@{domain}"), parsing (split) and strip().lower() are       *)
(* computed and not assumed.                                               *)
(*                                                                         *)
(* Updates are dispatched one at a time (no handler is run_async), so at   *)
(* most one handler is in flight: `op` holds its locals and the provider   *)
(* call it is blocked in.  The cleanup job runs on the job-queue thread    *)
(* and may run between any two steps of a handler; so may the clock, and   *)
(* so may a crash of the process.                                          *)
(***************************************************************************)
EXTENDS Integers, Sequences, FiniteSets, TLC

\* ------------------------------------------------------------------ bounds
NumUsers == 2
MaxTime == 2
MaxAccounts == 2
MaxInbox == 1

\* ------------------------------------------------------- program constants
UsernameLength == 10
InboxLimit == 10
BodyLimit == 3000
GET_CUSTOM_USERNAME == 0
END == -1

\* --------------------------------------------------------------- text
Min(a, b) == IF a < b THEN a ELSE b

IsSpace(c) == c \in {" ", "\t", "\n"}

\* str.lower() on one character
LowerChar(c) ==
    CASE c = "A" -> "a"
      [] c = "B" -> "b"
      [] c = "C" -> "c"
      [] OTHER -> c

\* str.lower()
Lower(s) == [i \in 1..Len(s) |-> LowerChar(s[i])]

RECURSIVE LStrip(_)
LStrip(s) ==
    IF s # <<>> /\ IsSpace(Head(s)) THEN LStrip(Tail(s)) ELSE s

RECURSIVE RStrip(_)
RStrip(s) ==
    IF s # <<>> /\ IsSpace(s[Len(s)]) THEN RStrip(SubSeq(s, 1, Len(s) - 1)) ELSE s

\* str.strip()
Strip(s) == RStrip(LStrip(s))

\* index of the first occurrence of character c in s, 0 when there is none
RECURSIVE IndexFrom(_, _, _)
IndexFrom(s, c, i) ==
    IF i > Len(s) THEN 0
    ELSE IF s[i] = c THEN i
    ELSE IndexFrom(s, c, i + 1)

Index(s, c) == IndexFrom(s, c, 1)

\* s.split(c, 1): the parts around the first c; one part when c is absent
Split1(s, c) ==
    LET i == Index(s, c) IN
    IF i = 0 THEN <<s>>
    ELSE <<SubSeq(s, 1, i - 1), SubSeq(s, i + 1, Len(s))>>

\* ', '.join(parts)
RECURSIVE Join(_)
Join(parts) ==
    IF parts = <<>> THEN <<>>
    ELSE IF Len(parts) = 1 THEN parts[1]
    ELSE parts[1] \o <<",", " ">> \o Join(Tail(parts))

\* decimal digits of a natural number
DigitChar(d) == <<"0", "1", "2", "3", "4", "5", "6", "7", "8", "9">>[d + 1]

RECURSIVE Digits(_)
Digits(n) ==
    IF n < 10 THEN <<DigitChar(n)>>
    ELSE Digits(n \div 10) \o <<DigitChar(n % 10)>>

\* the least of a non-empty set of numbers
Least(S) == CHOOSE k \in S : \A m \in S : k <= m

\* re.sub('<[^<]+?>', '', s): the end of the match that starts at i, 0 when
\* there is none: the nearest '>' at least two places on, with no '<' between
MatchEnd(s, i) ==
    IF s[i] # "<" THEN 0
    ELSE LET closes == {j \in (i + 2)..Len(s) : s[j] = ">"} IN
         IF closes = {} THEN 0
         ELSE LET j == Least(closes) IN
              IF \E k \in (i + 1)..(j - 1) : s[k] = "<" THEN 0 ELSE j

\* the matches are taken from the left and do not overlap: what is left of s
\* from place i on
RECURSIVE StripTagsFrom(_, _)
StripTagsFrom(s, i) ==
    LET starts == {k \in i..Len(s) : MatchEnd(s, k) # 0} IN
    IF starts = {} THEN SubSeq(s, i, Len(s))
    ELSE LET k == Least(starts) IN
         SubSeq(s, i, k - 1) \o StripTagsFrom(s, MatchEnd(s, k) + 1)

\* mutant: re.sub(..., count=1), only the first tag is removed
StripTags_Once(s) ==
    LET starts == {k \in 1..Len(s) : MatchEnd(s, k) # 0} IN
    IF starts = {} THEN s
    ELSE LET k == Least(starts) IN
         SubSeq(s, 1, k - 1) \o SubSeq(s, MatchEnd(s, k) + 1, Len(s))

StripTags(s) == StripTagsFrom(s, 1)

\* clean_content[:3000]
Truncate(s) == SubSeq(s, 1, Min(Len(s), BodyLimit))

\* ------------------------------------------------------------ input sets
Users == 1..NumUsers

\* generate_random_string(12): the passwords a mailbox may be given, in the
\* order the model first draws them
PasswordNames == <<"pw1", "pw2">>

Passwords == {PasswordNames[i] : i \in 1..Len(PasswordNames)}

\* the bearer tokens the provider may hand out
Tokens == {"tok1", "tok2"}

\* generate_random_string(): UsernameLength draws from the alphabet; the
\* model draws the strings made of one repeated character of RandomAlphabet
RandomAlphabet == {"r"}

generate_random_string(length) ==
    {[i \in 1..length |-> c] : c \in RandomAlphabet}

\* what the user may type as a custom username
CustomTexts == {<<" ", "B", " ">>}

DomainX == <<"x", ".", "i", "o">>
DomainY == <<"y", ".", "i", "o">>

\* the provider's answers to GET /domains: hydra:member, in its order
Catalogs == {<<>>, <<DomainX>>, <<DomainX, DomainY>>}

\* f"{username}@{domain}"
EmailAddress(username, domain) == username \o <<"@">> \o domain

\* every address a button press may name (choice tokens carry no integrity
\* check: a press may name an address that was never created)
Addresses ==
    {EmailAddress(n, DomainX) :
        n \in generate_random_string(UsernameLength)
              \cup {Lower(Strip(t)) : t \in CustomTexts}}

\* ------------------------------------------------------------ messages
MsgId(i) == <<"m">> \o Digits(i)

\* one entry of GET /messages
Msg(i) ==
    [id |-> MsgId(i),
     name |-> <<"n">> \o Digits(i),
     subject |-> <<"s">> \o Digits(i)]

\* messages 1..n, oldest first, and newest first
RECURSIVE MsgsUp(_)
MsgsUp(n) == IF n = 0 THEN <<>> ELSE Append(MsgsUp(n - 1), Msg(n))

RECURSIVE MsgsDown(_)
MsgsDown(n) == IF n = 0 THEN <<>> ELSE <<Msg(n)>> \o MsgsDown(n - 1)

\* the provider's answers to GET /messages: n messages, in its order
Inboxes == {MsgsUp(n) : n \in 0..MaxInbox}

HtmlHi == <<"<", "p", ">", "H", "i", "<", "/", "p", ">">>

\* the provider's answers to GET /messages/{id}
Details ==
    {[from |-> <<"f", "@", "z">>, to |-> <<<<"t", "@", "z">>>>,
      subject |-> <<"s">>, createdAt |-> <<"d">>,
      text |-> <<"H", "i">>, html |-> <<HtmlHi>>, attachments |-> 0],
     [from |-> <<"f", "@", "z">>, to |-> <<<<"t", "@", "z">>, <<"u", "@", "z">>>>,
      subject |-> <<"s">>, createdAt |-> <<"d">>,
      text |-> <<>>, html |-> <<HtmlHi>>, attachments |-> 1]}

\* the same answers at the sizes the display limits are about
MaxList == 11
MaxBody == 4

\* GET /messages: up to MaxList messages, oldest first or newest first
LongInboxes ==
    {IF up THEN MsgsUp(n) ELSE MsgsDown(n) : up \in BOOLEAN, n \in 0..MaxList}

Detail(text, html, attachments) ==
    [from |-> <<"f", "@", "z">>, to |-> <<<<"t", "@", "z">>>>,
     subject |-> <<"s">>, createdAt |-> <<"d">>,
     text |-> text, html |-> html, attachments |-> attachments]

\* a body as the text field, as the first element of the html list, and a
\* message with neither
DetailsOf(bodies) ==
    {Detail(b, <<HtmlHi>>, 0) : b \in bodies}
      \cup {Detail(<<>>, <<b, HtmlHi>>, 1) : b \in bodies}
      \cup {Detail(<<>>, <<>>, 0)}

\* a body of n letters
RECURSIVE Long(_)
Long(n) ==
    IF n = 0 THEN <<>>
    ELSE LET half == Long(n \div 2) IN
         half \o half \o (IF n % 2 = 1 THEN <<"a">> ELSE <<>>)

\* "<p>Hi <b>there</b></p>"
ScenarioBody ==
    <<"<", "p", ">", "H", "i", " ", "<", "b", ">", "t", "h", "e", "r", "e",
      "<", "/", "b", ">", "<", "/", "p", ">">>

\* bodies around the display limit, without and with a tag
LongBodies ==
    {Long(BodyLimit - 1), Long(BodyLimit), Long(BodyLimit + 1), Long(5000),
     <<"<", "p", ">">> \o Long(BodyLimit), ScenarioBody, <<>>}

\* every body of up to MaxBody characters among '<', '>' and a letter, and
\* ScenarioBody
RECURSIVE BodiesOfLength(_)
BodiesOfLength(n) ==
    IF n = 0 THEN {<<>>}
    ELSE {Append(b, c) : b \in BodiesOfLength(n - 1), c \in {"<", ">", "a"}}

ShortBodies ==
    (UNION {BodiesOfLength(n) : n \in 0..MaxBody}) \cup {ScenarioBody}

\* ------------------------------------------------------------ the table
\* The mailbox table behind `db`: rows in insertion order.
Row(user_id, address, password, mail_gw_id, t) ==
    [address |-> address, owner_id |-> user_id, password |-> password,
     mail_gw_id |-> mail_gw_id, created_at |-> t]

\* retention window of cleanup_old_emails, in clock ticks (hours)
Retention == 1

HasAddress(tbl, address) == \E i \in 1..Len(tbl) : tbl[i].address = address

\* db.delete_email: idempotent
delete_email(tbl, address) ==
    LET keep(r) == r.address # address IN SelectSeq(tbl, keep)

\* db.add_email: insert, or overwrite the row of that address
add_email(tbl, user_id, address, password, mail_gw_id, t) ==
    delete_email(tbl, address) \o <<Row(user_id, address, password, mail_gw_id, t)>>

\* db.find_email: <<>> for None, else <<(user_id, password, mail_gw_id)>>
find_email(tbl, address) ==
    LET hit(r) == r.address = address
        rows == SelectSeq(tbl, hit)
    IN  [i \in 1..Len(rows) |->
            [user_id |-> rows[i].owner_id, password |-> rows[i].password,
             mail_gw_id |-> rows[i].mail_gw_id]]

\* db.get_user_emails: (email, password, mail_gw_id) of the owner's rows
get_user_emails(tbl, user_id) ==
    LET mine(r) == r.owner_id = user_id
        rows == SelectSeq(tbl, mine)
    IN  [i \in 1..Len(rows) |->
            [email |-> rows[i].address, password |-> rows[i].password,
             mail_gw_id |-> rows[i].mail_gw_id]]

\* db.cleanup_old_emails at clock t
cleanup_old_emails(tbl, t) ==
    LET keep(r) == ~(r.created_at < t - Retention) IN SelectSeq(tbl, keep)

\* db.get_stats: (distinct owners, rows)
get_stats(tbl) ==
    <<Cardinality({tbl[i].owner_id : i \in 1..Len(tbl)}), Len(tbl)>>

\* ------------------------------------------------------ provider client
\* What a request to the provider may come back with: no answer at all
\* (connection error, timeout), an HTTP error status, or a 2xx with a body.
Failures == {"neterr", "httperr"}

Response(status, body) == [status |-> status, body |-> body]

\* what a client function hands back: it raised, or it returned `value`
\* (none: the value is the function's "no result")
Returned(value) == [raised |-> FALSE, none |-> FALSE, value |-> value]
NoResult(value) == [raised |-> FALSE, none |-> TRUE, value |-> value]
Raised(value) == [raised |-> TRUE, none |-> FALSE, value |-> value]

\* mail.get_domains: hydra:member[0]['domain']; only RequestException is
\* caught, so indexing an empty catalog raises IndexError
get_domains(resp) ==
    IF resp.status \in Failures THEN NoResult(<<>>)
    ELSE IF Len(resp.body) = 0 THEN Raised(<<>>)
    ELSE Returned(resp.body[1])

\* mail.create_account: the account record, None on RequestException
NoAccount == [has_id |-> FALSE, id |-> 0]

create_account(resp) ==
    IF resp.status \in Failures THEN NoResult(NoAccount)
    ELSE Returned(resp.body)

\* mail.get_auth_token: the token, None on RequestException
get_auth_token(resp) ==
    IF resp.status \in Failures THEN NoResult("none")
    ELSE Returned(resp.body)

\* mutant: no try/except around the request
get_messages_Raises(resp) ==
    IF resp.status \in Failures THEN Raised(<<>>)
    ELSE Returned(resp.body)

\* mail.get_messages: hydra:member, [] on RequestException
get_messages(resp) ==
    IF resp.status \in Failures THEN NoResult(<<>>)
    ELSE Returned(resp.body)

\* mail.get_message_by_id: the message, None on RequestException
NoDetail ==
    [from |-> <<>>, to |-> <<>>, subject |-> <<>>, createdAt |-> <<>>,
     text |-> <<>>, html |-> <<>>, attachments |-> 0]

get_message_by_id(resp) ==
    IF resp.status \in Failures THEN NoResult(NoDetail)
    ELSE Returned(resp.body)

\* mutant: the DELETE request is issued, and its failure is not caught
delete_account_by_id_Requests(token, account_id) == Raised(FALSE)

\* mail.delete_account_by_id: the request is commented out; logs, returns True
delete_account_by_id(token, account_id) == Returned(TRUE)

\* one entry of a handler's record of the client calls it made
Call(fn, status, address, password, token, r) ==
    [fn |-> fn, status |-> status, address |-> address, password |-> password,
     token |-> token, none |-> r.none, raised |-> r.raised]

\* ------------------------------------------------------------ replies
\* What the user is sent: the notice, the address and the lines it shows,
\* the inline keyboard, the numbers of /stats.
Reply(kind, email, lines, keyboard, nums) ==
    [kind |-> kind, email |-> email, lines |-> lines, keyboard |-> keyboard,
     nums |-> nums]

Notice(kind) == Reply(kind, <<>>, <<>>, <<>>, <<>>)

NoReply == Notice("none")

Button(text, callback_data) == [text |-> text, callback_data |-> callback_data]

DeleteStr == <<"d", "e", "l", "e", "t", "e">>
InboxStr == <<"i", "n", "b", "o", "x">>
ViewMsgStr == <<"v", "i", "e", "w", "_", "m", "s", "g">>

\* f"{action}:{email}"
ActionData(action, email) == action \o <<":">> \o email

\* f"view_msg:{msg['id']}|{email_address}"
ViewData(id, email) == ViewMsgStr \o <<":">> \o id \o <<"|">> \o email

\* list_emails: one line per (email, _, _)
ListReply(emails) ==
    IF Len(emails) = 0 THEN Notice("NoEmails")
    ELSE Reply("EmailList", <<>>, [i \in 1..Len(emails) |-> emails[i].email],
               <<>>, <<>>)

\* mutant: `if not emails` forgotten, an empty keyboard is sent
PromptReply_NoNotice(emails, action) ==
    Reply("Select", <<>>, <<action>>,
          [i \in 1..Len(emails) |->
              Button(emails[i].email, ActionData(action, emails[i].email))],
          <<>>)

\* inbox_or_delete_prompt: one button per (email, _, _)
PromptReply(emails, action) ==
    IF Len(emails) = 0 THEN Notice("NoEmailsPrompt")
    ELSE Reply("Select", <<>>, <<action>>,
               [i \in 1..Len(emails) |->
                   Button(emails[i].email, ActionData(action, emails[i].email))],
               <<>>)

\* stats
StatsReply(counts) == Reply("Stats", <<>>, <<>>, <<>>, counts)

\* mutant: the password is shown with the address
CreatedReply_ShowsPassword(kind, email_address, password, account_info) ==
    Reply(IF kind = "new" THEN "Created" ELSE "CustomCreated",
          email_address, <<<<password>>>>, <<>>, <<>>)

\* new_email / get_custom_username, on success
CreatedReply(kind, email_address, password, account_info) ==
    Reply(IF kind = "new" THEN "Created" ELSE "CustomCreated",
          email_address, <<>>, <<>>, <<>>)

\* new_email / get_custom_username, when create_account gave nothing
RejectedReply(kind, email_address) ==
    Reply("ProviderRejected", IF kind = "new" THEN <<>> ELSE email_address,
          <<>>, <<>>, <<>>)

\* handle_delete_callback, after db.delete_email
DeletedReply(email_address, email_data) ==
    Reply("Deleted", email_address, <<>>, <<>>, <<>>)

\* mutant: the [:10] forgotten
InboxReply_NoCap(email_address, email_data, messages) ==
    IF Len(messages) = 0 THEN Reply("InboxEmpty", email_address, <<>>, <<>>, <<>>)
    ELSE Reply("Inbox", email_address, <<>>,
               [i \in 1..Len(messages) |->
                   Button(messages[i].name \o <<" ", "|", " ">> \o messages[i].subject,
                          ViewData(messages[i].id, email_address))],
               <<>>)

\* handle_inbox_callback: messages[:10], one button each
InboxReply(email_address, email_data, messages) ==
    IF Len(messages) = 0 THEN Reply("InboxEmpty", email_address, <<>>, <<>>, <<>>)
    ELSE LET shown == SubSeq(messages, 1, Min(Len(messages), InboxLimit)) IN
         Reply("Inbox", email_address, <<>>,
               [i \in 1..Len(shown) |->
                   Button(shown[i].name \o <<" ", "|", " ">> \o shown[i].subject,
                          ViewData(shown[i].id, email_address))],
               <<>>)

\* handle_view_message_callback: text, else html[0]; tags stripped; cut
MessageContent(m) == IF Len(m.text) # 0 THEN m.text ELSE m.html[1]

\* .get('html', [''])[0] of an empty list: IndexError
ContentRaises(m) == Len(m.text) = 0 /\ Len(m.html) = 0

\* mutant: the body is cut before the tags are stripped
MessageReply_CutFirst(email_data, m) ==
    Reply("Message", <<>>,
          <<m.from, Join(m.to), m.subject, m.createdAt,
            StripTags(Truncate(MessageContent(m)))>>
             \o (IF m.attachments # 0 THEN <<<<"attachments">>>> ELSE <<>>),
          <<>>, <<>>)

MessageReply(email_data, m) ==
    Reply("Message", <<>>,
          <<m.from, Join(m.to), m.subject, m.createdAt,
            Truncate(StripTags(MessageContent(m)))>>
             \o (IF m.attachments # 0 THEN <<<<"attachments">>>> ELSE <<>>),
          <<>>, <<>>)

\* ------------------------------------------------------------ state
VARIABLES
    store,      \* the mailbox table: rows in insertion order
    accounts,   \* the provider: address -> [password, id] of its account
    now,        \* the clock, in hours
    conv,       \* ConversationHandler: each user's conversation state
    op          \* the handler in flight: its locals and where it is

vars == <<store, accounts, now, conv, op>>

\* no handler in flight
NoOp ==
    [pc |-> "idle", kind |-> "none", from_user |-> 0, user_id |-> 0,
     text |-> <<>>, action |-> <<>>, username |-> <<>>, password |-> "none",
     domain |-> <<>>, email_address |-> <<>>, message_id |-> <<>>, email_data |-> <<>>,
     emails |-> <<>>, token |-> "none", account_info |-> NoAccount,
     messages |-> <<>>, message_content |-> NoDetail,
     resp |-> Response("none", <<>>), calls |-> <<>>,
     reply |-> NoReply, raised |-> FALSE, ret |-> END]

Init ==
    /\ store = <<>>
    /\ accounts = <<>>
    /\ now = 0
    /\ conv = [u \in Users |-> END]
    /\ op = NoOp

Idle == op.pc = "idle"

\* the handler is over: it replied and returned `ret`
Done(o, reply, ret) == [o EXCEPT !.pc = "done", !.reply = reply, !.ret = ret]

\* the handler is over: an exception left it, nothing was replied
Abort(o) == [o EXCEPT !.pc = "done", !.raised = TRUE]

Logged(o, call) == [o EXCEPT !.calls = Append(@, call)]

\* ----------------------------------------------------- commands: create
\* generate_random_string(12) draws any password.  Passwords are only stored,
\* passed on and compared for equality, so a draw is one of the passwords
\* some account has, or the first one no account has: every other draw is
\* one of these up to renaming.
NewPasswords ==
    LET used == {accounts[a].password : a \in DOMAIN accounts}
        fresh == {i \in 1..Len(PasswordNames) : PasswordNames[i] \notin used}
    IN  used \cup {PasswordNames[i] : i \in {j \in fresh : \A k \in fresh : j <= k}}

\* /new: new_email up to mail.get_domains()
NewEmail(u) ==
    /\ Idle
    /\ \E username \in generate_random_string(UsernameLength), password \in NewPasswords :
        op' = [NoOp EXCEPT !.pc = "get_domains", !.kind = "new", !.from_user = u,
                           !.user_id = u, !.username = username,
                           !.password = password]
    /\ UNCHANGED <<store, accounts, now, conv>>

\* /custom: custom_email_start (an entry point: only outside a conversation)
CustomEmailStart(u) ==
    /\ Idle
    /\ conv[u] = END
    /\ op' = Done([NoOp EXCEPT !.kind = "custom_start", !.from_user = u],
                  Notice("CustomPrompt"), GET_CUSTOM_USERNAME)
    /\ UNCHANGED <<store, accounts, now, conv>>

\* mutant: .lower() forgotten
CustomUsername_NoLower(text) == Strip(text)

\* update.message.text.strip().lower()
CustomUsername(text) == Lower(Strip(text))

\* the username message: get_custom_username up to mail.get_domains()
GetCustomUsername(u, text) ==
    /\ Idle
    /\ conv[u] = GET_CUSTOM_USERNAME
    /\ \E password \in NewPasswords :
        op' = [NoOp EXCEPT !.pc = "get_domains", !.kind = "custom", !.from_user = u,
                           !.user_id = u, !.text = text,
                           !.username = CustomUsername(text),
                           !.password = password]
    /\ UNCHANGED <<store, accounts, now, conv>>

\* /cancel: the conversation's fallback
Cancel(u) ==
    /\ Idle
    /\ conv[u] = GET_CUSTOM_USERNAME
    /\ op' = Done([NoOp EXCEPT !.kind = "cancel", !.from_user = u],
                  Notice("Cancelled"), END)
    /\ UNCHANGED <<store, accounts, now, conv>>

\* mutant: `if not domain` forgotten
AfterDomains_NoCheck(o, resp, r) ==
    LET o1 == [Logged(o, Call("get_domains", resp.status, <<>>, "none", "none", r))
                  EXCEPT !.resp = resp]
    IN  IF r.raised THEN Abort(o1)
        ELSE [o1 EXCEPT !.pc = "create_account", !.domain = r.value,
                        !.email_address = EmailAddress(o.username, r.value)]

\* new_email / get_custom_username from `domain = mail.get_domains()` to
\* the call of mail.create_account
AfterDomains(o, resp, r) ==
    LET o1 == [Logged(o, Call("get_domains", resp.status, <<>>, "none", "none", r))
                  EXCEPT !.resp = resp]
    IN  IF r.raised THEN Abort(o1)
        ELSE IF r.none \/ Len(r.value) = 0
        THEN Done(o1, Notice("DomainUnavailable"), END)
        ELSE [o1 EXCEPT !.pc = "create_account", !.domain = r.value,
                        !.email_address = EmailAddress(o.username, r.value)]

DomainResponses ==
    {Response(f, <<>>) : f \in Failures} \cup {Response("ok", c) : c \in Catalogs}

GetDomainsReturn ==
    /\ op.pc = "get_domains"
    /\ \E resp \in DomainResponses : op' = AfterDomains(op, resp, get_domains(resp))
    /\ UNCHANGED <<store, accounts, now, conv>>

\* POST /accounts at the provider: a taken address is refused; the request
\* or the answer may be lost; a new account gets the next id
NextAccountId == Cardinality(DOMAIN accounts) + 1

CanCreate(address) ==
    /\ address \notin DOMAIN accounts
    /\ Cardinality(DOMAIN accounts) < MaxAccounts

ProviderCreateAccount ==
    /\ op.pc = "create_account"
    /\ \/ /\ CanCreate(op.email_address)
          /\ accounts' = accounts @@
                (op.email_address :> [password |-> op.password, id |-> NextAccountId])
          /\ \/ op' = [op EXCEPT !.pc = "create_account_resp",
                          !.resp = Response("ok", [has_id |-> TRUE, id |-> NextAccountId])]
             \/ op' = [op EXCEPT !.pc = "create_account_resp",
                          !.resp = Response("neterr", NoAccount)]
       \/ /\ \E f \in Failures :
                op' = [op EXCEPT !.pc = "create_account_resp",
                                 !.resp = Response(f, NoAccount)]
          /\ UNCHANGED accounts
    /\ UNCHANGED <<store, now, conv>>

\* mutant: the result of create_account is not looked at
HasAccountId_Always(r) == TRUE

\* `if account_info and 'id' in account_info`
HasAccountId(r) == ~r.none /\ r.value.has_id

\* new_email / get_custom_username from `account_info = ...` to the end
AfterCreate(o, resp, r) ==
    LET o1 == [Logged(o, Call("create_account", resp.status, o.email_address,
                              o.password, "none", r))
                  EXCEPT !.account_info = r.value]
    IN  IF r.raised THEN Abort(o1)
        ELSE IF HasAccountId(r)
        THEN Done(o1, CreatedReply(o.kind, o.email_address, o.password, r.value), END)
        ELSE Done(o1, RejectedReply(o.kind, o.email_address), END)

\* mutant: db.add_email moved above `if account_info and 'id' in account_info`
StoreAfterCreate_Unchecked(tbl, o, r, t) ==
    IF ~r.raised
    THEN add_email(tbl, o.user_id, o.email_address, o.password, r.value.id, t)
    ELSE tbl

\* the rows new_email / get_custom_username leave: db.add_email on success
StoreAfterCreate(tbl, o, r, t) ==
    IF ~r.raised /\ HasAccountId(r)
    THEN add_email(tbl, o.user_id, o.email_address, o.password, r.value.id, t)
    ELSE tbl

CreateAccountReturn ==
    /\ op.pc = "create_account_resp"
    /\ LET r == create_account(op.resp) IN
        /\ op' = AfterCreate(op, op.resp, r)
        /\ store' = StoreAfterCreate(store, op, r, now)
    /\ UNCHANGED <<accounts, now, conv>>

\* ------------------------------------------------- commands: read-only
\* /list
ListEmails(u) ==
    /\ Idle
    /\ LET emails == get_user_emails(store, u) IN
        op' = Done([NoOp EXCEPT !.kind = "list", !.from_user = u, !.user_id = u,
                                !.emails = emails],
                   ListReply(emails), END)
    /\ UNCHANGED <<store, accounts, now, conv>>

\* /inbox and /delete: inbox_or_delete_prompt
Prompt(u, action) ==
    /\ Idle
    /\ LET emails == get_user_emails(store, u) IN
        op' = Done([NoOp EXCEPT !.kind = "prompt", !.from_user = u, !.user_id = u,
                                !.action = action, !.emails = emails],
                   PromptReply(emails, action), END)
    /\ UNCHANGED <<store, accounts, now, conv>>

\* /stats
Stats(u) ==
    /\ Idle
    /\ op' = Done([NoOp EXCEPT !.kind = "stats", !.from_user = u],
                  StatsReply(get_stats(store)), END)
    /\ UNCHANGED <<store, accounts, now, conv>>

\* ------------------------------------------------------ button presses
\* the callback data a press may carry
ButtonData ==
    {ActionData(a, e) : a \in {DeleteStr, InboxStr}, e \in Addresses}
      \cup {ViewData(MsgId(1), e) : e \in Addresses}

\* mutant: `if not email_data` forgotten, the handler goes on to authenticate
Lookup_NoCheck(kind, from_user, message_id, email_address, tbl) ==
    LET email_data == find_email(tbl, email_address) IN
    [NoOp EXCEPT !.pc = "get_auth_token", !.kind = kind, !.from_user = from_user,
                 !.message_id = message_id, !.email_address = email_address,
                 !.email_data = email_data]

\* mutant: email_data is unpacked before `if not email_data`: TypeError
Lookup_Unpacks(kind, from_user, message_id, email_address, tbl) ==
    LET email_data == find_email(tbl, email_address)
        o == [NoOp EXCEPT !.kind = kind, !.from_user = from_user,
                          !.message_id = message_id,
                          !.email_address = email_address,
                          !.email_data = email_data]
    IN  IF Len(email_data) = 0
        THEN Abort(o)
        ELSE [o EXCEPT !.pc = "get_auth_token",
                       !.user_id = email_data[1].user_id,
                       !.password = email_data[1].password]

\* handle_*_callback from db.find_email to the call of mail.get_auth_token;
\* the requester, query.from_user, is not read
Lookup(kind, from_user, message_id, email_address, tbl) ==
    LET email_data == find_email(tbl, email_address)
        o == [NoOp EXCEPT !.kind = kind, !.from_user = from_user,
                          !.message_id = message_id,
                          !.email_address = email_address,
                          !.email_data = email_data]
    IN  IF Len(email_data) = 0
        THEN Done(o, Notice("NotFound"), END)
        ELSE [o EXCEPT !.pc = "get_auth_token",
                       !.user_id = email_data[1].user_id,
                       !.password = email_data[1].password]

\* button_handler: data.split(":", 1), then the callback of the action
button_handler(from_user, data, tbl) ==
    LET parts == Split1(data, ":")
        action == parts[1]
        value == parts[2]
    IN  IF action = DeleteStr THEN Lookup("delete", from_user, <<>>, value, tbl)
        ELSE IF action = InboxStr THEN Lookup("inbox", from_user, <<>>, value, tbl)
        ELSE LET pair == Split1(value, "|") IN
             Lookup("view", from_user, pair[1], pair[2], tbl)

Press(u, data) ==
    /\ Idle
    /\ op' = button_handler(u, data, store)
    /\ UNCHANGED <<store, accounts, now, conv>>

\* POST /token at the provider: a token for the account's own password, an
\* error status otherwise; the request may fail
AuthResponses(address, password) ==
    {Response(f, "none") : f \in Failures}
      \cup (IF address \in DOMAIN accounts /\ accounts[address].password = password
            THEN {Response("ok", t) : t \in Tokens}
            ELSE {})

\* mutant: a token kept from an earlier operation is passed instead
TokenUsed_Cached(o, token) == "tok1"

\* the token a callback passes to the authenticated call: the local `token`
TokenUsed(o, token) == token

\* handle_delete_callback from `token = ...` to the end
AfterAuthDelete(o, r) ==
    LET o1 == [o EXCEPT !.token = r.value]
        t == TokenUsed(o, r.value)
        o2 == IF r.value # "none"
              THEN Logged(o1, Call("delete_account_by_id", "norequest", <<>>, "none", t,
                              delete_account_by_id(t, o.email_data[1].mail_gw_id)))
              ELSE o1
    IN  Done(o2, DeletedReply(o.email_address, o.email_data), END)

\* mutant: db.delete_email moved under `if token:`
StoreAfterDelete_IfToken(tbl, email_address, token) ==
    IF token # "none" THEN delete_email(tbl, email_address) ELSE tbl

\* mutant: the rows are deleted by owner, not by address
StoreAfterDelete_ByOwner(tbl, email_address, token) ==
    LET owners == {tbl[i].owner_id : i \in {j \in 1..Len(tbl) :
                                               tbl[j].address = email_address}}
        keep(r) == r.owner_id \notin owners
    IN  SelectSeq(tbl, keep)

\* the rows handle_delete_callback leaves: db.delete_email, token or not
StoreAfterDelete(tbl, email_address, token) == delete_email(tbl, email_address)

\* mutant: `if not token` forgotten
AfterAuthFetch_NoCheck(o, r) ==
    [o EXCEPT !.token = r.value,
              !.pc = IF o.kind = "inbox" THEN "get_messages"
                     ELSE "get_message_by_id"]

\* handle_inbox_callback / handle_view_message_callback from `token = ...`
\* to the authenticated call
AfterAuthFetch(o, r) ==
    IF r.value = "none" THEN Done(o, Notice("AuthFailed"), END)
    ELSE [o EXCEPT !.token = r.value,
                   !.pc = IF o.kind = "inbox" THEN "get_messages"
                          ELSE "get_message_by_id"]

GetAuthTokenReturn ==
    /\ op.pc = "get_auth_token"
    /\ \E resp \in AuthResponses(op.email_address, op.password) :
        LET r == get_auth_token(resp)
            o1 == Logged(op, Call("get_auth_token", resp.status, op.email_address,
                                  op.password, r.value, r))
        IN  IF r.raised
            THEN op' = Abort(o1) /\ store' = store
            ELSE IF op.kind = "delete"
            THEN /\ op' = AfterAuthDelete(o1, r)
                 /\ store' = StoreAfterDelete(store, op.email_address, r.value)
            ELSE /\ op' = AfterAuthFetch(o1, r)
                 /\ store' = store
    /\ UNCHANGED <<accounts, now, conv>>

\* handle_inbox_callback from `messages = mail.get_messages(token)` on
MessageResponses ==
    {Response(f, <<>>) : f \in Failures} \cup {Response("ok", m) : m \in Inboxes}

AfterMessages(o, resp, r) ==
    LET o1 == [Logged(o, Call("get_messages", resp.status, <<>>, "none",
                              TokenUsed(o, o.token), r))
                  EXCEPT !.messages = r.value]
    IN  IF r.raised THEN Abort(o1)
        ELSE Done(o1, InboxReply(o.email_address, o.email_data, r.value), END)

GetMessagesReturn ==
    /\ op.pc = "get_messages"
    /\ \E resp \in MessageResponses : op' = AfterMessages(op, resp, get_messages(resp))
    /\ UNCHANGED <<store, accounts, now, conv>>

\* handle_view_message_callback from `message_content = ...` on
DetailResponses ==
    {Response(f, NoDetail) : f \in Failures} \cup {Response("ok", d) : d \in Details}

AfterMessage(o, resp, r) ==
    LET o1 == [Logged(o, Call("get_message_by_id", resp.status, <<>>, "none",
                              TokenUsed(o, o.token), r))
                  EXCEPT !.message_content = r.value]
    IN  IF r.raised THEN Abort(o1)
        ELSE IF r.none THEN Done(o1, Notice("MessageUnavailable"), END)
        ELSE IF ContentRaises(r.value) THEN Abort(o1)
        ELSE Done(o1, MessageReply(o.email_data, r.value), END)

GetMessageByIdReturn ==
    /\ op.pc = "get_message_by_id"
    /\ \E resp \in DetailResponses :
        op' = AfterMessage(op, resp, get_message_by_id(resp))
    /\ UNCHANGED <<store, accounts, now, conv>>

\* ------------------------------------------------ dispatcher, job, clock
\* the handler returns: a conversation handler's return value becomes the
\* user's conversation state, unless an exception left the handler
Return ==
    /\ op.pc = "done"
    /\ op' = NoOp
    /\ conv' = IF op.kind \in {"custom_start", "custom", "cancel"} /\ ~op.raised
               THEN [conv EXCEPT ![op.from_user] = op.ret]
               ELSE conv
    /\ UNCHANGED <<store, accounts, now>>

\* auto_cleanup_job, on the job-queue thread
Cleanup ==
    /\ store' = cleanup_old_emails(store, now)
    /\ store' # store
    /\ UNCHANGED <<accounts, now, conv, op>>

Tick ==
    /\ now < MaxTime
    /\ now' = now + 1
    /\ UNCHANGED <<store, accounts, conv, op>>

\* the process dies and is started again: the table and the provider keep
\* what they hold, the handler in flight and the conversations are lost
Crash ==
    /\ op.pc # "idle" \/ \E u \in Users : conv[u] # END
    /\ op' = NoOp
    /\ conv' = [u \in Users |-> END]
    /\ UNCHANGED <<store, accounts, now>>

Next ==
    \/ \E u \in Users : NewEmail(u)
    \/ \E u \in Users : CustomEmailStart(u)
    \/ \E u \in Users, text \in CustomTexts : GetCustomUsername(u, text)
    \/ \E u \in Users : Cancel(u)
    \/ GetDomainsReturn
    \/ ProviderCreateAccount
    \/ CreateAccountReturn
    \/ \E u \in Users : ListEmails(u)
    \/ \E u \in Users, action \in {DeleteStr, InboxStr} : Prompt(u, action)
    \/ \E u \in Users : Stats(u)
    \/ \E u \in Users, data \in ButtonData : Press(u, data)
    \/ GetAuthTokenReturn
    \/ GetMessagesReturn
    \/ GetMessageByIdReturn
    \/ Return
    \/ Cleanup
    \/ Tick
    \/ Crash

Spec == Init /\ [][Next]_vars

\* ------------------------------------------- the fetches, at full size
\* One mailbox is stored, as CreateAccountReturn leaves it; the buttons of
\* its inbox and of a message are pressed; the provider answers with lists
\* and bodies of the sizes the display limits are about.
FetchInit ==
    /\ \E u \in Users, a \in Addresses :
        /\ store = <<Row(u, a, "pw1", 1, 0)>>
        /\ accounts = (a :> [password |-> "pw1", id |-> 1])
    /\ now = 0
    /\ conv = [u \in Users |-> END]
    /\ op = NoOp

GetMessagesLong ==
    /\ op.pc = "get_messages"
    /\ \E resp \in {Response(f, <<>>) : f \in Failures}
                     \cup {Response("ok", m) : m \in LongInboxes} :
        op' = AfterMessages(op, resp, get_messages(resp))
    /\ UNCHANGED <<store, accounts, now, conv>>

GetMessageLong ==
    /\ op.pc = "get_message_by_id"
    /\ \E resp \in {Response(f, NoDetail) : f \in Failures}
                     \cup {Response("ok", d) : d \in DetailsOf(LongBodies)} :
        op' = AfterMessage(op, resp, get_message_by_id(resp))
    /\ UNCHANGED <<store, accounts, now, conv>>

GetMessageShort ==
    /\ op.pc = "get_message_by_id"
    /\ \E resp \in {Response(f, NoDetail) : f \in Failures}
                     \cup {Response("ok", d) : d \in DetailsOf(ShortBodies)} :
        op' = AfterMessage(op, resp, get_message_by_id(resp))
    /\ UNCHANGED <<store, accounts, now, conv>>

FetchNext ==
    \/ \E u \in Users, e \in Addresses : Press(u, ActionData(InboxStr, e))
    \/ \E u \in Users, e \in Addresses : Press(u, ViewData(MsgId(1), e))
    \/ GetAuthTokenReturn
    \/ GetMessagesLong
    \/ GetMessageLong
    \/ Return

FetchSpec == FetchInit /\ [][FetchNext]_vars

StripNext ==
    \/ \E u \in Users, e \in Addresses : Press(u, ViewData(MsgId(1), e))
    \/ GetAuthTokenReturn
    \/ GetMessageShort
    \/ Return

StripSpec == FetchInit /\ [][StripNext]_vars

\* ------------------------------------------- a fetch and a delete
\* One mailbox is stored; the inbox button and the delete button of an
\* address are pressed, in any order and any number of times.  The
\* dispatcher runs one handler at a time.
RaceNext ==
    \/ \E u \in Users, e \in Addresses : Press(u, ActionData(InboxStr, e))
    \/ \E u \in Users, e \in Addresses : Press(u, ActionData(DeleteStr, e))
    \/ GetAuthTokenReturn
    \/ GetMessagesReturn
    \/ Return

RaceSpec == FetchInit /\ [][RaceNext]_vars

\* ------------------------------------------------------------ claims
Callbacks == {"inbox", "view", "delete"}

\* the callback in flight found its address in the table and went on
PastLookup == op.kind \in Callbacks /\ Len(op.email_data) > 0

LastCall(o) == o.calls[Len(o.calls)]

Terminated == op.pc = "done"

\* C1: every FetchInbox, FetchMessage or DeleteMailbox that proceeds past
\* the table lookup for an address was requested by the user stored as the
\* owner of that address.
C1_OnlyOwnerActs ==
    PastLookup => op.from_user = op.email_data[1].user_id

\* C2: a DeleteMailbox that found its address in the table ends with the
\* address absent from the table, whether authenticate gave no token (remote
\* delete skipped) or the remote delete was called.
C2_DeleteAlwaysRemoves ==
    (op.kind = "delete" /\ Terminated /\ Len(op.email_data) > 0)
        => ~HasAddress(store, op.email_address)

C2_DeletedWithoutToken ==
    /\ op.kind = "delete" /\ Terminated /\ Len(op.email_data) > 0
    /\ op.token = "none"
    /\ LastCall(op).fn = "get_auth_token" /\ LastCall(op).none
    /\ op.reply.kind = "Deleted"

\* C3: a FetchInbox, FetchMessage or DeleteMailbox on an address that is not
\* in the table ends at once with NotFound, has made no provider call and
\* leaves the table and the provider as they were.
C3_AbsentIsNotFound ==
    [][(op.pc = "idle" /\ op'.kind \in Callbacks
          /\ ~HasAddress(store, op'.email_address))
        => /\ op'.pc = "done"
           /\ ~op'.raised
           /\ op'.reply = Notice("NotFound")
           /\ op'.calls = <<>>
           /\ store' = store
           /\ accounts' = accounts]_vars

C3_NotFoundOnceExisted ==
    /\ op.kind = "inbox" /\ Terminated
    /\ op.reply.kind = "NotFound"
    /\ op.email_address \in DOMAIN accounts
    /\ ~HasAddress(store, op.email_address)

\* the text between its first and last non-blank characters, lower-cased
TrimLower(text) ==
    LET idx == {i \in 1..Len(text) : ~IsSpace(text[i])} IN
    IF idx = {} THEN <<>>
    ELSE LET lo == CHOOSE i \in idx : \A j \in idx : i <= j
             hi == CHOOSE i \in idx : \A j \in idx : j <= i
         IN  [k \in 1..(hi - lo + 1) |-> LowerChar(text[lo + k - 1])]

\* C4: when create_account succeeds, exactly one row is added to the table:
\* its address is local_part@domain (for create-custom the typed text,
\* trimmed then lower-cased; for create-random a string of UsernameLength
\* characters), its owner is the requesting user, its account id is the id
\* of the returned record; the rows that were there are unchanged, the
\* owner's list holds the address, and the address is what the reply shows.
C4_CreateStoresOneMailbox ==
    [][(op.pc = "create_account_resp" /\ op.resp.status = "ok" /\ op'.pc = "done")
        => LET local == IF op.kind = "custom" THEN TrimLower(op.text) ELSE op.username
               address == local \o <<"@">> \o op.domain
               listed == get_user_emails(store', op.from_user)
           IN  /\ op.kind = "new" => Len(local) = UsernameLength
               /\ ~HasAddress(store, address)
               /\ Len(store') = Len(store) + 1
               /\ SubSeq(store', 1, Len(store)) = store
               /\ store'[Len(store')].address = address
               /\ store'[Len(store')].owner_id = op.from_user
               /\ store'[Len(store')].mail_gw_id = op.resp.body.id
               /\ \E i \in 1..Len(listed) : listed[i].email = address
               /\ op'.reply.kind \in {"Created", "CustomCreated"}
               /\ op'.reply.email = address]_vars

C4_SecondMailboxStored ==
    /\ op.kind = "custom" /\ Terminated
    /\ op.reply.kind = "CustomCreated"
    /\ Len(store) = 2
    /\ store[2].address = op.email_address
    /\ store[2].owner_id = op.from_user
    /\ store[1].owner_id # op.from_user

\* C5: when get_domains returns none, CreateMailbox (random and custom) ends
\* with DomainUnavailable: get_domains is the only provider call of the
\* request, and the table and the provider are unchanged.
C5_NoDomainNoCreate ==
    [][(op.pc = "get_domains" /\ Len(op'.calls) = 1 /\ op'.calls[1].none)
        => /\ op'.pc = "done"
           /\ ~op'.raised
           /\ op'.reply = Notice("DomainUnavailable")
           /\ op'.calls[1].fn = "get_domains"
           /\ store' = store
           /\ accounts' = accounts]_vars

C5_CustomDomainUnavailable ==
    /\ op.kind = "custom" /\ Terminated
    /\ op.reply.kind = "DomainUnavailable"
    /\ Len(op.calls) = 1 /\ op.calls[1].none
    /\ Len(store) > 0

\* C6: when create_account returns none, CreateMailbox ends with
\* ProviderRejected and the table is unchanged; and a step adds an address
\* to the table only if it is the step of a CreateMailbox in which
\* create_account returned an account record.
C6_RejectedLeavesStore ==
    [][/\ (op.pc = "create_account_resp" /\ op'.pc = "done" /\ LastCall(op').none)
            => (op'.reply.kind = "ProviderRejected" /\ ~op'.raised /\ store' = store)
       /\ (\E i \in 1..Len(store') : ~HasAddress(store, store'[i].address))
            => /\ op.pc = "create_account_resp"
               /\ op.kind \in {"new", "custom"}
               /\ op.resp.status = "ok"
               /\ LastCall(op').fn = "create_account"
               /\ ~LastCall(op').none]_vars

C6_RejectedNew ==
    /\ op.kind = "new" /\ Terminated
    /\ op.reply.kind = "ProviderRejected"
    /\ LastCall(op).fn = "create_account" /\ LastCall(op).none

\* C7: a provider call that met a network or HTTP failure did not raise and
\* returned its no-result value (no domain, no account, no token, no
\* messages, no message); no handler is left by an exception after a failed
\* provider request.
C7_FailuresAreNoResults ==
    /\ \A i \in 1..Len(op.calls) :
        op.calls[i].status \in Failures
            => /\ op.calls[i].none /\ ~op.calls[i].raised
               /\ op.calls[i].fn = "get_domains" => op.domain = <<>>
               /\ op.calls[i].fn = "create_account" => op.account_info = NoAccount
               /\ op.calls[i].fn = "get_auth_token" => op.token = "none"
               /\ op.calls[i].fn = "get_messages" => op.messages = <<>>
               /\ op.calls[i].fn = "get_message_by_id" => op.message_content = NoDetail
    /\ op.raised => (Len(op.calls) > 0 /\ LastCall(op).status \notin Failures)

C7_FailedRequestAnswered ==
    /\ op.kind = "inbox" /\ Terminated /\ ~op.raised
    /\ Len(op.calls) = 2
    /\ LastCall(op).fn = "get_messages" /\ LastCall(op).status = "httperr"
    /\ op.reply.kind = "InboxEmpty"

\* C8: when the provider answers GET /domains successfully, get_domains
\* returns the first domain of a non-empty catalog, and for an empty catalog
\* returns none without raising, so that CreateMailbox ends with
\* DomainUnavailable.
C8_FirstDomainOrNone ==
    (Len(op.calls) = 1 /\ op.calls[1].fn = "get_domains" /\ op.resp.status = "ok"
       /\ op.pc \in {"create_account", "done"})
        => IF Len(op.resp.body) > 0
           THEN op.pc = "create_account" /\ op.domain = op.resp.body[1]
           ELSE /\ ~op.raised
                /\ op.calls[1].none
                /\ op.reply = Notice("DomainUnavailable")

\* C9: every authenticated provider call (get_messages, get_message_by_id,
\* delete_account_by_id) is preceded, in the same handler run, by a
\* get_auth_token call for the handler's address, and carries the token that
\* call returned; a handler about to authenticate holds no token.
AuthenticatedCalls == {"get_messages", "get_message_by_id", "delete_account_by_id"}

C9_FreshTokenPerOperation ==
    /\ \A i \in 1..Len(op.calls) :
        op.calls[i].fn \in AuthenticatedCalls
            => \E j \in 1..(i - 1) :
                /\ op.calls[j].fn = "get_auth_token"
                /\ op.calls[j].address = op.email_address
                /\ ~op.calls[j].none
                /\ op.calls[j].token = op.calls[i].token
    /\ op.pc = "get_auth_token" => (op.token = "none" /\ op.calls = <<>>)

C9_ViewedWithSecondToken ==
    /\ op.kind = "view" /\ Terminated
    /\ Len(op.calls) = 2
    /\ op.calls[2].fn = "get_message_by_id"
    /\ op.calls[2].token = "tok2"
    /\ op.reply.kind = "Message"

\* C10: what a handler replies does not depend on a password or a provider
\* account id: with the passwords and account ids among its locals replaced
\* by any others, the same branch renders the same reply.
AccountIds == 0..MaxAccounts

WithSecrets(o, pw, id) ==
    [o EXCEPT !.password = pw,
              !.account_info = [@ EXCEPT !.id = id],
              !.email_data = [i \in 1..Len(@) |->
                                 [@[i] EXCEPT !.password = pw, !.mail_gw_id = id]],
              !.emails = [i \in 1..Len(@) |->
                             [@[i] EXCEPT !.password = pw, !.mail_gw_id = id]]]

Rendered(o) ==
    LET k == o.reply.kind IN
    CASE k \in {"Created", "CustomCreated"} ->
            CreatedReply(o.kind, o.email_address, o.password, o.account_info)
      [] k = "ProviderRejected" -> RejectedReply(o.kind, o.email_address)
      [] k \in {"NoEmails", "EmailList"} -> ListReply(o.emails)
      [] k \in {"NoEmailsPrompt", "Select"} -> PromptReply(o.emails, o.action)
      [] k = "Stats" -> StatsReply(o.reply.nums)
      [] k = "Deleted" -> DeletedReply(o.email_address, o.email_data)
      [] k \in {"InboxEmpty", "Inbox"} ->
            InboxReply(o.email_address, o.email_data, o.messages)
      [] k = "Message" -> MessageReply(o.email_data, o.message_content)
      [] OTHER -> Notice(k)

C10_RepliesIgnoreSecrets ==
    (Terminated /\ ~op.raised)
        => \A pw \in Passwords, id \in AccountIds :
              Rendered(WithSecrets(op, pw, id)) = op.reply

C10_CreatedWithSecondPassword ==
    /\ op.kind = "new" /\ Terminated
    /\ op.reply.kind = "Created"
    /\ op.password = "pw2"
    /\ op.account_info.id = 2

\* C11: /list and the /inbox, /delete prompts show exactly the addresses the
\* table holds for the requesting user at that moment: one entry per row of
\* that user, no address of a row of another user; each button of a prompt
\* carries action:address; a user with no row gets the "no mailboxes" notice
\* and no keyboard.
C11_OwnedAddressesShown ==
    [][(op.pc = "idle" /\ op'.kind \in {"list", "prompt"})
        => LET u == op'.from_user
               owned == {i \in 1..Len(store) : store[i].owner_id = u}
               kb == op'.reply.keyboard
               shown == IF op'.kind = "list" THEN op'.reply.lines
                        ELSE [i \in 1..Len(kb) |-> kb[i].text]
           IN  /\ op'.pc = "done" /\ ~op'.raised
               /\ Len(shown) = Cardinality(owned)
               /\ {shown[i] : i \in 1..Len(shown)} = {store[i].address : i \in owned}
               /\ \A i \in 1..Len(shown), j \in 1..Len(store) :
                      store[j].address = shown[i] => store[j].owner_id = u
               /\ \A i \in 1..Len(kb) :
                      kb[i].callback_data = op'.action \o <<":">> \o kb[i].text
               /\ owned = {}
                    => op'.reply = Notice(IF op'.kind = "list" THEN "NoEmails"
                                          ELSE "NoEmailsPrompt")
               /\ owned # {}
                    => op'.reply.kind = (IF op'.kind = "list" THEN "EmailList"
                                         ELSE "Select")]_vars

C11_PromptAmongOthers ==
    /\ op.kind = "prompt" /\ Terminated
    /\ op.reply.kind = "Select"
    /\ Len(op.reply.keyboard) = 1
    /\ Len(store) = 2
    /\ \E i \in 1..2 : store[i].owner_id # op.from_user

\* C12: for a list of n messages from the provider, the inbox shows
\* min(n, 10) entries: entry i is message i of the provider's list (its
\* sender name and subject, and a button for its id and this address), in
\* the provider's order; with no message it says the inbox is empty.
C12_FirstTenInOrder ==
    (op.kind = "inbox" /\ Terminated /\ Len(op.calls) = 2)
        => LET n == Len(op.messages)
               k == IF n < 10 THEN n ELSE 10
               kb == op.reply.keyboard
           IN  /\ ~op.raised
               /\ Len(kb) = k
               /\ \A i \in 1..k :
                    /\ kb[i].text = op.messages[i].name \o <<" ", "|", " ">>
                                        \o op.messages[i].subject
                    /\ kb[i].callback_data =
                          ViewMsgStr \o <<":">> \o op.messages[i].id \o <<"|">>
                             \o op.email_address
               /\ op.reply.kind = (IF n = 0 THEN "InboxEmpty" ELSE "Inbox")
               /\ op.reply.email = op.email_address

C12_ElevenNewestFirst ==
    /\ op.kind = "inbox" /\ Terminated
    /\ Len(op.messages) = 11
    /\ op.messages[1].id = MsgId(11)
    /\ Len(op.reply.keyboard) = 10
    /\ op.reply.keyboard[10].callback_data = ViewData(MsgId(2), op.email_address)

\* C13: the body of a shown message is the first min(L, 3000) characters of
\* the content with its tags stripped, L being the length after stripping;
\* the content is the text field when that is not empty, else the first
\* element of the html list; so a body of 5000 characters without tags is
\* shown as 3000 characters.
C13_BodyCutAfterStripping ==
    (op.kind = "view" /\ Terminated /\ op.reply.kind = "Message")
        => LET m == op.message_content
               content == IF m.text # <<>> THEN m.text ELSE Head(m.html)
               stripped == StripTags(content)
               L == Len(stripped)
               body == op.reply.lines[5]
           IN  /\ Len(body) = (IF L < 3000 THEN L ELSE 3000)
               /\ body = SubSeq(stripped, 1, Len(body))
               /\ (Len(content) = 5000 /\ stripped = content) => Len(body) = 3000

C13_TaggedHtmlCutAtLimit ==
    /\ op.kind = "view" /\ Terminated /\ op.reply.kind = "Message"
    /\ op.message_content.text = <<>>
    /\ Len(Head(op.message_content.html)) = 3003
    /\ Len(op.reply.lines[5]) = 3000

\* the content a shown message was rendered from
ShownContent ==
    IF op.message_content.text # <<>> THEN op.message_content.text
    ELSE Head(op.message_content.html)

ShownBody == op.reply.lines[5]

MessageShown == op.kind = "view" /\ Terminated /\ op.reply.kind = "Message"

\* s without the places in `gone`
Without(s, gone) ==
    LET kept == {p \in 1..Len(s) : p \notin gone}
        place(n) == CHOOSE p \in kept : Cardinality({q \in kept : q < p}) = n - 1
    IN  [n \in 1..Cardinality(kept) |-> s[place(n)]]

\* s holds a '<' and, somewhere after it, a '>'
Bracketed(s) == \E i, j \in 1..Len(s) : i < j /\ s[i] = "<" /\ s[j] = ">"

\* the places of s from a '<' to the nearest '>' after it
InBrackets(s) ==
    {p \in 1..Len(s) :
        \E i \in 1..p, j \in p..Len(s) :
            /\ i < j /\ s[i] = "<" /\ s[j] = ">"
            /\ \A k \in (i + 1)..(j - 1) : s[k] # ">"}

\* C18 as stated: the shown body holds no '<' with a '>' after it, and is
\* the content without what stands between angle brackets, every other
\* character kept in order.
C18_NothingBracketedLeft ==
    MessageShown
        => /\ ~Bracketed(ShownBody)
           /\ ShownBody = Without(ShownContent, InBrackets(ShownContent))

\* a tag: a '<' at i, then one or more characters other than '<', up to the
\* nearest '>' at j
IsTag(s, i, j) ==
    /\ s[i] = "<" /\ s[j] = ">" /\ i + 2 <= j
    /\ \A k \in (i + 1)..(j - 1) : s[k] # "<"
    /\ \A k \in (i + 2)..(j - 1) : s[k] # ">"

InTags(s) ==
    {p \in 1..Len(s) : \E i \in 1..p, j \in p..Len(s) : IsTag(s, i, j)}

\* C18, amended: the shown body is the content without its tags (a tag is a
\* '<', one or more characters other than '<', and the nearest '>' after
\* them), every character outside the tags kept in order; when every '<' of
\* the content opens a tag, the shown body holds no '<' at all;
\* "<p>Hi <b>there</b></p>" is shown as "Hi there".
C18_TagsRemoved ==
    MessageShown
        => /\ ShownBody = Without(ShownContent, InTags(ShownContent))
           /\ (\A i \in 1..Len(ShownContent) :
                  ShownContent[i] = "<"
                     => \E j \in 1..Len(ShownContent) : IsTag(ShownContent, i, j))
                => \A p \in 1..Len(ShownBody) : ShownBody[p] # "<"
           /\ ShownContent = ScenarioBody
                => ShownBody = <<"H", "i", " ", "t", "h", "e", "r", "e">>

C18_ScenarioShown ==
    /\ MessageShown
    /\ op.message_content.text = ScenarioBody
    /\ ShownBody = <<"H", "i", " ", "t", "h", "e", "r", "e">>

\* C14: when get_auth_token gives no token, the inbox and the message
\* callbacks end there with the AuthFailed notice: get_messages and
\* get_message_by_id are not called and the table is unchanged; the delete
\* callback in that case ends without a delete_account_by_id call.  The
\* provider's accounts are unchanged in both.
C14_NoTokenNoAuthenticatedCall ==
    [][(op.pc = "get_auth_token" /\ Len(op'.calls) > 0 /\ LastCall(op').none)
        => /\ op'.pc = "done" /\ ~op'.raised
           /\ Len(op'.calls) = 1
           /\ op'.calls[1].fn = "get_auth_token"
           /\ op'.token = "none"
           /\ accounts' = accounts
           /\ op.kind \in {"inbox", "view"}
                => (op'.reply = Notice("AuthFailed") /\ store' = store)
           /\ op.kind = "delete" => op'.reply.kind = "Deleted"]_vars

C14_ViewAuthFailed ==
    /\ op.kind = "view" /\ Terminated
    /\ op.reply.kind = "AuthFailed"
    /\ Len(op.calls) = 1 /\ op.calls[1].status = "httperr"
    /\ HasAddress(store, op.email_address)

\* the inbox callback in flight has just ended
FetchEnds == op.pc # "done" /\ op'.pc = "done" /\ op'.kind = "inbox"

\* C15 as stated: a fetch of an address that is also deleted ends with an
\* inbox result when its lookup ran before the removal (the row is still
\* there), with NotFound when it ran after, and with nothing else; once the
\* delete has ended the address is absent, and stays absent.
C15_InboxOrNotFound ==
    [][/\ FetchEnds
            => /\ ~op'.raised
               /\ IF HasAddress(store, op'.email_address)
                  THEN op'.reply.kind \in {"Inbox", "InboxEmpty"}
                  ELSE op'.reply.kind = "NotFound"
       /\ (op'.kind = "delete" /\ op'.pc = "done")
            => ~HasAddress(store', op'.email_address)
       /\ \A a \in Addresses :
            ~HasAddress(store, a) => ~HasAddress(store', a)]_vars

\* C15, amended: the fetch whose lookup ran before the removal may also end
\* with AuthFailed, when the provider gave no token; a fetch that ended with
\* an inbox result or AuthFailed found its row, one that ended with NotFound
\* did not.
C15_InboxAuthFailedOrNotFound ==
    [][/\ FetchEnds
            => /\ ~op'.raised
               /\ IF HasAddress(store, op'.email_address)
                  THEN /\ op'.reply.kind \in {"Inbox", "InboxEmpty", "AuthFailed"}
                       /\ Len(op'.email_data) = 1
                       /\ op'.reply.kind = "AuthFailed" <=> op'.token = "none"
                  ELSE /\ op'.reply.kind = "NotFound"
                       /\ Len(op'.email_data) = 0
       /\ (op'.kind = "delete" /\ op'.pc = "done")
            => ~HasAddress(store', op'.email_address)
       /\ \A a \in Addresses :
            ~HasAddress(store, a) => ~HasAddress(store', a)]_vars

C15_FetchAfterDelete ==
    /\ op.kind = "inbox" /\ Terminated
    /\ op.reply.kind = "NotFound"
    /\ op.email_address \in DOMAIN accounts
    /\ store = <<>>

\* C16: the account is created at the provider in one step and the row is
\* added to the table in a later one; when the process dies between the two
\* the account exists at the provider and the table has no row for the
\* address; no step removes or changes an account at the provider; every
\* address in the table has an account at the provider.
C16_OrphanAfterCrash ==
    [][/\ (op.pc = "create_account_resp" /\ op.resp.status = "ok" /\ op'.pc = "idle")
            => /\ op.email_address \in DOMAIN accounts'
               /\ ~HasAddress(store', op.email_address)
       /\ (op.pc # "create_account_resp" /\ op'.pc = "create_account_resp"
              /\ op'.resp.status = "ok")
            => /\ op.pc = "create_account"
               /\ op.email_address \notin DOMAIN accounts
               /\ op.email_address \in DOMAIN accounts'
               /\ store' = store
       /\ \A a \in DOMAIN accounts :
            a \in DOMAIN accounts' /\ accounts'[a] = accounts[a]
       /\ \A i \in 1..Len(store') :
            /\ store'[i].address \in DOMAIN accounts'
            /\ accounts'[store'[i].address].id = store'[i].mail_gw_id]_vars

C16_CreatedNotYetStored ==
    /\ op.pc = "create_account_resp" /\ op.resp.status = "ok"
    /\ op.kind = "custom"
    /\ op.email_address \in DOMAIN accounts
    /\ ~HasAddress(store, op.email_address)
    /\ Len(store) = 1

\* C17: /custom leaves the conversation waiting for a username, without a
\* provider call or a change of the table; /cancel in that state ends the
\* conversation, again without a provider call or a change of the table; the
\* handler of the username message calls create_account at most once, adds
\* at most one row, and when it is over the user's conversation has ended.
C17_UsernameEndsConversation ==
    [][/\ (op.pc = "idle" /\ op'.kind = "custom_start")
            => /\ conv[op'.from_user] = END
               /\ op'.ret = GET_CUSTOM_USERNAME
               /\ op'.calls = <<>> /\ store' = store /\ accounts' = accounts
       /\ (op.pc = "idle" /\ op'.kind = "cancel")
            => /\ conv[op'.from_user] = GET_CUSTOM_USERNAME
               /\ op'.ret = END /\ ~op'.raised
               /\ op'.calls = <<>> /\ store' = store /\ accounts' = accounts
       /\ (op.pc = "idle" /\ op'.kind = "custom")
            => conv[op'.from_user] = GET_CUSTOM_USERNAME
       /\ op'.kind = "custom"
            => /\ Cardinality({i \in 1..Len(op'.calls) :
                                 op'.calls[i].fn = "create_account"}) <= 1
               /\ Len(store') <= Len(store) + 1
       /\ (op.kind \in {"custom", "cancel"} /\ op.pc = "done" /\ op'.pc = "idle")
            => conv'[op.from_user] = END]_vars

Rows(tbl) == {tbl[i] : i \in 1..Len(tbl)}

ReadOnly == {"inbox", "view", "list", "prompt", "stats"}

\* C19: no step of the inbox, message, /list, prompt and /stats handlers
\* changes the table; a row is added only by the step of a create handler
\* that got an account record, and that step adds one row and removes none;
\* a row is removed only by the delete callback, which removes the row of
\* its address and no other, or by the cleanup job, which removes rows older
\* than the retention window.
C19_OnlyCreateDeleteCleanupWrite ==
    [][/\ (op'.pc # op.pc /\ (op.kind \in ReadOnly \/ op'.kind \in ReadOnly))
            => store' = store
       /\ Rows(store') \ Rows(store) # {}
            => /\ op.kind \in {"new", "custom"}
               /\ op.pc = "create_account_resp" /\ op.resp.status = "ok"
               /\ op'.reply.kind \in {"Created", "CustomCreated"}
               /\ Len(store') = Len(store) + 1
               /\ SubSeq(store', 1, Len(store)) = store
       /\ Rows(store) \ Rows(store') # {}
            => \/ /\ op.kind = "delete" /\ op.pc = "get_auth_token"
                  /\ op'.pc = "done"
                  /\ Rows(store) \ Rows(store')
                        = {r \in Rows(store) : r.address = op.email_address}
                  /\ Len(store') = Len(store) - 1
               \/ /\ op'.pc = op.pc /\ op'.kind = op.kind
                  /\ \A r \in Rows(store) \ Rows(store') :
                        r.created_at < now - 1
                  /\ \A r \in Rows(store') : ~(r.created_at < now - 1)]_vars

C19_StatsOverTwoRows ==
    /\ op.kind = "stats" /\ Terminated
    /\ op.reply.nums = <<2, 2>>
    /\ Len(store) = 2

\* the create handler in flight holds the provider's record of a new account
\* for address a, and has not yet stored it
Pending(a) ==
    /\ op.pc = "create_account_resp" /\ op.resp.status = "ok"
    /\ op.email_address = a

====
